---- MODULE Spec2Model ----
(***************************************************************************)
(* Linked Data Notifications client helpers of solid-notifications:        *)
(* discoverInboxUri, list and send, as the promise chains of               *)
(* src/src/index.js and of the second copy of the module                   *)
(* (src/unnamed/part_000).  One call is in progress at a time; every       *)
(* .then callback and every reply of the injected web client is one step.  *)
(***************************************************************************)
EXTENDS Integers, Sequences, FiniteSets, TLC

\* ---------------------------------------------------------------- bounds
MaxTriples == 2

\* ------------------------------------------------------------- constants
DEFAULT_CONTENT_TYPE == "application/ld+json"
DEFAULT_ACCEPT == "application/ld+json;q=0.9,text/turtle;q=0.8"
INBOX_LINK_REL == "http://www.w3.org/ns/ldp#inbox"

NO_CLIENT_ERROR == "Web client instance is required"
NO_INBOX_ERROR == "No inbox uri found for resource."

\* the two copies of the module
SrcIndex == "src/index.js"
Part000 == "unnamed/part_000"
Files == {SrcIndex, Part000}

\* JavaScript undefined (an absent argument, option, header or property)
Undefined == "undefined"

\* a value is truthy unless it is undefined or the empty string
Truthy(v) == v \notin {Undefined, ""}

\* ------------------------------------------------- the inputs' universes
Doc == "https://example.org/doc"
Inbox == "https://example.org/inbox"
Inbox2 == "https://example.org/inbox2"
ResourceUris == {Doc}
OptionInboxUris == {Undefined, "", Inbox}
OptionContentTypes == {Undefined, "", "text/turtle"}
Payloads == {"{}", "<a> <b> <c> ."}
Options == [webClient : BOOLEAN, inboxUri : OptionInboxUris,
            contentType : OptionContentTypes]
NoOptions == [webClient |-> TRUE, inboxUri |-> Undefined, contentType |-> Undefined]

\* response.linkHeaders: relation type -> target uri
Rels == {INBOX_LINK_REL, "describedby"}
LinkTargets == {"", Inbox}
LinkHeaderMaps == UNION {[D -> LinkTargets] : D \in SUBSET Rels}

\* the triples of a parsed body
Predicates == {INBOX_LINK_REL, "http://www.w3.org/ns/ldp#contains"}
Objects == {Inbox, Inbox2}
Triples == [subject : {Doc}, predicate : Predicates, object : Objects]
Graphs == UNION {[1..n -> Triples] : n \in 0..MaxTriples}

\* a SolidResponse as discovery uses it: the link headers and the body, which
\* parsedGraph() either turns into a graph or fails on (parseError non-empty)
Resources == [linkHeaders : LinkHeaderMaps, parseError : {""}, graph : Graphs]
               \cup [linkHeaders : LinkHeaderMaps, parseError : {"SyntaxError"},
                     graph : {<<>>}]
NoResource == [linkHeaders |-> <<>>, parseError |-> "", graph |-> <<>>]

\* container.resources: member uri -> member
Members == {"https://example.org/inbox/1", "https://example.org/inbox/2"}
Containers == UNION {[D -> {"resource"}] : D \in SUBSET Members}

\* what the injected client may reject a request with, and answer a POST with
ClientErrors == {"NetworkError", "Forbidden"}
PostResponses == {"201", "202"}

\* ------------------------------------------------------------- the state
VARIABLES
  file,       \* the copy of the module the call in progress runs
  op,         \* the exported function called: discoverInboxUri, list or send
  args,       \* the call's arguments
  pc,         \* the position of the call in its promise chain
  fetched,    \* the resource the second callback of discoverInboxUri received
  inboxUri,   \* the inbox uri list/send resolved
  container,  \* the response to the inbox GET of list
  discovery,  \* the promise discoverInboxUri returned
  outcome,    \* the promise the call returned
  sent,       \* the requests handed to the web client, in order
  replies,    \* the client's replies, replies[i] answering sent[i]
  calls       \* the capabilities of the resource invoked, in order

vars == <<file, op, args, pc, fetched, inboxUri, container, discovery, outcome,
          sent, replies, calls>>

NoArgs == [uri |-> Undefined, payload |-> Undefined, options |-> NoOptions,
           hasResource |-> FALSE, resource |-> NoResource]
Pending == [state |-> "pending", uri |-> Undefined, error |-> "", keys |-> {},
            response |-> Undefined]
NoPromise == [Pending EXCEPT !.state = "none"]
Rejected(e) == [Pending EXCEPT !.state = "rejected", !.error = e]
FulfilledUri(u) == [Pending EXCEPT !.state = "fulfilled", !.uri = u]
FulfilledKeys(k) == [Pending EXCEPT !.state = "fulfilled", !.keys = k]
FulfilledResponse(r) == [Pending EXCEPT !.state = "fulfilled", !.response = r]

\* a request as the web client receives it; site is the call in the source that
\* issued it ("discover": webClient.get(uri ...) of discoverInboxUri, "inbox":
\* the webClient.get / webClient.solidRequest of list / send)
Request(site, method, uri, accept, contentType, body) ==
  [site |-> site, method |-> method, uri |-> uri, accept |-> accept,
   contentType |-> contentType, body |-> body]

Init ==
  /\ file = Part000
  /\ op = "none"
  /\ args = NoArgs
  /\ pc = "idle"
  /\ fetched = NoResource
  /\ inboxUri = Undefined
  /\ container = <<>>
  /\ discovery = NoPromise
  /\ outcome = NoPromise
  /\ sent = <<>>
  /\ replies = <<>>
  /\ calls = <<>>

\* ------------------------------------------------------ pure operations
\* resource.linkHeaders[rel]: undefined when the mapping has no such key
linkHeader(resource, rel) ==
  IF rel \in DOMAIN resource.linkHeaders THEN resource.linkHeaders[rel]
  ELSE Undefined

\* a mutation of match: the predicate is not used, every triple matches
matchAny(graph, predicate) == graph

\* body.match(null, predicate): the triples with that predicate, in the order
\* of the graph
match(graph, predicate) == SelectSeq(graph, LAMBDA t : t.predicate = predicate)

\* a mutation of inspect: the body is looked up before the link headers
inspectBodyFirst(resource) ==
  LET inboxLinkRel == linkHeader(resource, INBOX_LINK_REL)
      matches == match(resource.graph, INBOX_LINK_REL)
  IN  IF resource.parseError # ""
        THEN [promise |-> Rejected(resource.parseError), calls |-> <<"parsedGraph">>]
      ELSE IF Len(matches) > 0
        THEN [promise |-> FulfilledUri(matches[1].object),
              calls |-> <<"parsedGraph", "match">>]
      ELSE IF Truthy(inboxLinkRel)
        THEN [promise |-> FulfilledUri(inboxLinkRel),
              calls |-> <<"parsedGraph", "match", "linkHeaders">>]
      ELSE [promise |-> Rejected(NO_INBOX_ERROR),
            calls |-> <<"parsedGraph", "match", "linkHeaders">>]

\* a mutation of inspect: without an inbox link header it gives up at once
inspectHeaderOnly(resource) ==
  LET inboxLinkRel == linkHeader(resource, INBOX_LINK_REL)
  IN  IF Truthy(inboxLinkRel)
        THEN [promise |-> FulfilledUri(inboxLinkRel), calls |-> <<"linkHeaders">>]
        ELSE [promise |-> Rejected(NO_INBOX_ERROR), calls |-> <<"linkHeaders">>]

\* the second callback of discoverInboxUri, the same in both copies: the
\* promise it settles and the capabilities of the resource it invokes
inspect(resource) ==
  LET inboxLinkRel == linkHeader(resource, INBOX_LINK_REL)
      matches == match(resource.graph, INBOX_LINK_REL)
  IN  IF Truthy(inboxLinkRel)
        THEN [promise |-> FulfilledUri(inboxLinkRel), calls |-> <<"linkHeaders">>]
      ELSE IF resource.parseError # ""
        THEN [promise |-> Rejected(resource.parseError),
              calls |-> <<"linkHeaders", "parsedGraph">>]
      ELSE IF Len(matches) > 0
        THEN [promise |-> FulfilledUri(matches[1].object),
              calls |-> <<"linkHeaders", "parsedGraph", "match">>]
      ELSE [promise |-> Rejected(NO_INBOX_ERROR),
            calls |-> <<"linkHeaders", "parsedGraph", "match">>]

\* the GET of discoverInboxUri: src/index.js passes no options,
\* the other copy passes the Accept header
discoveryGet(f, uri) ==
  IF f = SrcIndex
    THEN Request("discover", "GET", uri, Undefined, Undefined, Undefined)
    ELSE Request("discover", "GET", uri, DEFAULT_ACCEPT, Undefined, Undefined)

\* the GET of list
inboxGet(uri) == Request("inbox", "GET", uri, DEFAULT_ACCEPT, Undefined, Undefined)

\* a mutation of resolveContentType: options.contentType is not read
defaultContentTypeOnly(options) == DEFAULT_CONTENT_TYPE

\* options.contentType || DEFAULT_CONTENT_TYPE
resolveContentType(options) ==
  IF Truthy(options.contentType) THEN options.contentType ELSE DEFAULT_CONTENT_TYPE

\* the POST of send
inboxPost(uri, options, payload) ==
  Request("inbox", "POST", uri, Undefined, resolveContentType(options), payload)

\* a mutation of keys: one member is dropped
keysButOne(resources) ==
  IF DOMAIN resources = {} THEN {}
  ELSE DOMAIN resources \ {CHOOSE m \in DOMAIN resources : TRUE}

\* Object.keys(container.resources)
keys(resources) == DOMAIN resources

Reply(ok, error) == [ok |-> ok, error |-> error]

\* ------------------------------------------------------------- the calls
\* discoverInboxUri(uri, webClient, resource): returns the chain's promise
discoverInboxUri(f, uri, hasResource, resource) ==
  /\ pc = "idle"
  /\ file' = f
  /\ op' = "discoverInboxUri"
  /\ args' = [NoArgs EXCEPT !.uri = uri, !.hasResource = hasResource,
                            !.resource = resource]
  /\ pc' = "fetch"
  /\ discovery' = Pending
  /\ outcome' = Pending
  /\ UNCHANGED <<fetched, inboxUri, container, sent, replies, calls>>

\* list(resourceUri, options), which only the second copy defines
list(uri, options) ==
  /\ pc = "idle"
  /\ file' = Part000
  /\ op' = "list"
  /\ args' = [NoArgs EXCEPT !.uri = uri, !.options = options]
  /\ IF ~options.webClient
       THEN outcome' = Rejected(NO_CLIENT_ERROR) /\ pc' = "done"
       ELSE outcome' = Pending /\ pc' = "resolve"
  /\ UNCHANGED <<fetched, inboxUri, container, discovery, sent, replies, calls>>

\* a mutation of send: the web client is not checked
sendUnchecked(f, uri, payload, options) ==
  /\ pc = "idle"
  /\ file' = f
  /\ op' = "send"
  /\ args' = [NoArgs EXCEPT !.uri = uri, !.payload = payload, !.options = options]
  /\ outcome' = Pending /\ pc' = "resolve"
  /\ UNCHANGED <<fetched, inboxUri, container, discovery, sent, replies, calls>>

\* send(resourceUri, payload, options)
send(f, uri, payload, options) ==
  /\ pc = "idle"
  /\ file' = f
  /\ op' = "send"
  /\ args' = [NoArgs EXCEPT !.uri = uri, !.payload = payload, !.options = options]
  /\ IF ~options.webClient
       THEN outcome' = Rejected(NO_CLIENT_ERROR) /\ pc' = "done"
       ELSE outcome' = Pending /\ pc' = "resolve"
  /\ UNCHANGED <<fetched, inboxUri, container, discovery, sent, replies, calls>>

\* ------------------------------------------------- the steps of the chains
\* a mutation of settleDiscovery: list/send run their next callback on a
\* rejected discovery too
settleDiscoverySwallow(p) ==
  /\ discovery' = p
  /\ IF op = "discoverInboxUri"
       THEN outcome' = p /\ pc' = "done" /\ UNCHANGED inboxUri
       ELSE inboxUri' = p.uri /\ pc' = "request" /\ UNCHANGED outcome

\* the promise of discoverInboxUri settles: it is the call's own promise, or
\* list/send adopt it and run their next callback only when it is fulfilled
settleDiscovery(p) ==
  /\ discovery' = p
  /\ IF op = "discoverInboxUri"
       THEN outcome' = p /\ pc' = "done" /\ UNCHANGED inboxUri
     ELSE IF p.state = "fulfilled"
       THEN inboxUri' = p.uri /\ pc' = "request" /\ UNCHANGED outcome
     ELSE outcome' = Rejected(p.error) /\ pc' = "done" /\ UNCHANGED inboxUri

\* a mutation of resolveInboxUri: options.inboxUri is not read
resolveAlwaysDiscover ==
  /\ pc = "resolve"
  /\ discovery' = Pending /\ pc' = "fetch" /\ UNCHANGED inboxUri
  /\ UNCHANGED <<file, op, args, fetched, container, outcome, sent, replies, calls>>

\* first callback of list/send: options.inboxUri, or discoverInboxUri(resourceUri, webClient)
resolveInboxUri ==
  /\ pc = "resolve"
  /\ IF Truthy(args.options.inboxUri)
       THEN inboxUri' = args.options.inboxUri /\ pc' = "request"
            /\ UNCHANGED discovery
       ELSE discovery' = Pending /\ pc' = "fetch" /\ UNCHANGED inboxUri
  /\ UNCHANGED <<file, op, args, fetched, container, outcome, sent, replies, calls>>

\* first callback of discoverInboxUri: the resource given, or webClient.get(uri ...)
fetchResource ==
  /\ pc = "fetch"
  /\ IF args.hasResource
       THEN fetched' = args.resource /\ pc' = "inspect" /\ UNCHANGED sent
       ELSE sent' = Append(sent, discoveryGet(file, args.uri)) /\ pc' = "wait_get"
            /\ UNCHANGED fetched
  /\ UNCHANGED <<file, op, args, inboxUri, container, discovery, outcome,
                 replies, calls>>

\* the client fulfils the discovery GET with a resource
getResolves(resource) ==
  /\ pc = "wait_get"
  /\ fetched' = resource
  /\ replies' = Append(replies, Reply(TRUE, ""))
  /\ pc' = "inspect"
  /\ UNCHANGED <<file, op, args, inboxUri, container, discovery, outcome, sent, calls>>

\* the client rejects the discovery GET: the second callback is skipped
getRejects(e) ==
  /\ pc = "wait_get"
  /\ replies' = Append(replies, Reply(FALSE, e))
  /\ settleDiscovery(Rejected(e))
  /\ UNCHANGED <<file, op, args, fetched, container, sent, calls>>

\* second callback of discoverInboxUri
inspectResource ==
  /\ pc = "inspect"
  /\ calls' = calls \o inspect(fetched).calls
  /\ settleDiscovery(inspect(fetched).promise)
  /\ UNCHANGED <<file, op, args, fetched, container, sent, replies>>

\* a mutation of requestInbox: the request is issued twice
requestInboxTwice ==
  /\ pc = "request"
  /\ LET r == IF op = "list" THEN inboxGet(inboxUri)
              ELSE inboxPost(inboxUri, args.options, args.payload)
     IN  sent' = sent \o <<r, r>>
  /\ pc' = "wait_inbox"
  /\ UNCHANGED <<file, op, args, fetched, inboxUri, container, discovery, outcome,
                 replies, calls>>

\* second callback of list (webClient.get) and of send (webClient.solidRequest)
requestInbox ==
  /\ pc = "request"
  /\ sent' = Append(sent, IF op = "list" THEN inboxGet(inboxUri)
                          ELSE inboxPost(inboxUri, args.options, args.payload))
  /\ pc' = "wait_inbox"
  /\ UNCHANGED <<file, op, args, fetched, inboxUri, container, discovery, outcome,
                 replies, calls>>

\* the client fulfils the inbox GET of list with the container
inboxGetResolves(c) ==
  /\ pc = "wait_inbox"
  /\ op = "list"
  /\ container' = c
  /\ replies' = Append(replies, Reply(TRUE, ""))
  /\ pc' = "keys"
  /\ UNCHANGED <<file, op, args, fetched, inboxUri, discovery, outcome, sent, calls>>

\* the client fulfils the POST of send: its response is the result of send
postResolves(r) ==
  /\ pc = "wait_inbox"
  /\ op = "send"
  /\ replies' = Append(replies, Reply(TRUE, ""))
  /\ outcome' = FulfilledResponse(r)
  /\ pc' = "done"
  /\ UNCHANGED <<file, op, args, fetched, inboxUri, container, discovery, sent, calls>>

\* the client rejects the inbox request: the rejection is the call's
inboxRejects(e) ==
  /\ pc = "wait_inbox"
  /\ replies' = Append(replies, Reply(FALSE, e))
  /\ outcome' = Rejected(e)
  /\ pc' = "done"
  /\ UNCHANGED <<file, op, args, fetched, inboxUri, container, discovery, sent, calls>>

\* third callback of list
listKeys ==
  /\ pc = "keys"
  /\ outcome' = FulfilledKeys(keys(container))
  /\ pc' = "done"
  /\ UNCHANGED <<file, op, args, fetched, inboxUri, container, discovery, sent,
                 replies, calls>>

\* the caller has the settled promise; nothing of the call outlives it
Return ==
  /\ pc = "done"
  /\ file' = Part000
  /\ op' = "none"
  /\ args' = NoArgs
  /\ pc' = "idle"
  /\ fetched' = NoResource
  /\ inboxUri' = Undefined
  /\ container' = <<>>
  /\ discovery' = NoPromise
  /\ outcome' = NoPromise
  /\ sent' = <<>>
  /\ replies' = <<>>
  /\ calls' = <<>>

Next ==
  \/ \E f \in Files, uri \in ResourceUris :
       discoverInboxUri(f, uri, FALSE, NoResource)
  \/ \E f \in Files, uri \in ResourceUris, r \in Resources :
       discoverInboxUri(f, uri, TRUE, r)
  \/ \E uri \in ResourceUris, o \in Options : list(uri, o)
  \/ \E f \in Files, uri \in ResourceUris, p \in Payloads, o \in Options :
       send(f, uri, p, o)
  \/ resolveInboxUri
  \/ fetchResource
  \/ \E r \in Resources : getResolves(r)
  \/ \E e \in ClientErrors : getRejects(e)
  \/ inspectResource
  \/ requestInbox
  \/ \E c \in Containers : inboxGetResolves(c)
  \/ \E r \in PostResponses : postResolves(r)
  \/ \E e \in ClientErrors : inboxRejects(e)
  \/ listKeys
  \/ Return

Spec == Init /\ [][Next]_vars

TypeOK ==
  /\ file \in Files
  /\ op \in {"none", "discoverInboxUri", "list", "send"}
  /\ pc \in {"idle", "resolve", "fetch", "wait_get", "inspect", "request",
             "wait_inbox", "keys", "done"}
  /\ Len(replies) <= Len(sent)

\* ------------------------------------------------------------ the claims
\* the requests a call site of the source issued so far
DiscoveryGets == SelectSeq(sent, LAMBDA r : r.site = "discover")
InboxRequests == SelectSeq(sent, LAMBDA r : r.site = "inbox")
Posts == SelectSeq(sent, LAMBDA r : r.method = "POST")

\* the second callback of discoverInboxUri has run on the resource in fetched
Inspected == Len(calls) > 0
InboxLink == linkHeader(fetched, INBOX_LINK_REL)
InboxTripleAt(i) == fetched.graph[i].predicate = INBOX_LINK_REL
HasInboxTriple == \E i \in 1..Len(fetched.graph) : InboxTripleAt(i)
WithClient == op \in {"list", "send"} /\ args.options.webClient
InboxGiven == args.options.inboxUri \notin {Undefined, ""}

\* C1: once discoverInboxUri has inspected a resource (fetched or given) whose
\* link headers hold a non-empty value for ldp#inbox, its promise is fulfilled
\* with exactly that value and parsedGraph was never invoked, whatever the body.
C1_LinkHeaderWins ==
  (Inspected /\ InboxLink \notin {Undefined, ""})
    => /\ discovery = FulfilledUri(fetched.linkHeaders[INBOX_LINK_REL])
       /\ \A i \in 1..Len(calls) : calls[i] # "parsedGraph"

C1_Witness ==
  /\ op = "discoverInboxUri" /\ pc = "done"
  /\ Inspected /\ InboxLink = Inbox
  /\ \E i \in 1..Len(fetched.graph) : InboxTripleAt(i) /\ fetched.graph[i].object = Inbox2
  /\ outcome.state = "fulfilled" /\ outcome.uri = Inbox

\* C2: list and send called without options.webClient are rejected with
\* 'Web client instance is required' at once and hand no request to any client,
\* whether or not options.inboxUri is given.
C2_NoClientNoRequest ==
  (op \in {"list", "send"} /\ ~args.options.webClient)
    => /\ pc = "done"
       /\ outcome = Rejected("Web client instance is required")
       /\ sent = <<>>
       /\ discovery.state = "none"

C2_Witness ==
  /\ op = "send" /\ ~args.options.webClient /\ InboxGiven
  /\ outcome.state = "rejected" /\ sent = <<>>

\* C3: list and send called with a client and options.inboxUri skip discovery:
\* discoverInboxUri is never called, no discovery GET is issued, and the only
\* request is the inbox request (GET for list, POST for send) to options.inboxUri.
C3_InboxGivenSkipsDiscovery ==
  (WithClient /\ InboxGiven)
    => /\ discovery.state = "none"
       /\ calls = <<>>
       /\ Len(sent) <= 1
       /\ \A i \in 1..Len(sent) :
            /\ sent[i].site = "inbox"
            /\ sent[i].uri = args.options.inboxUri
            /\ sent[i].method = (IF op = "list" THEN "GET" ELSE "POST")
       /\ pc \in {"wait_inbox", "keys", "done"} => Len(sent) = 1

C3_Witness ==
  /\ op = "list" /\ WithClient /\ InboxGiven /\ pc = "done"
  /\ outcome.state = "fulfilled"
  /\ Len(sent) = 1 /\ sent[1].method = "GET" /\ sent[1].uri = Inbox

\* C4 as stated: every finished send call made with a client has issued zero or
\* one discovery GET and exactly one POST, on every path.
C4_ExactlyOnePostOnEveryPath ==
  (op = "send" /\ args.options.webClient /\ pc = "done")
    => Len(DiscoveryGets) <= 1 /\ Len(Posts) = 1

\* C4 amended: a send call made with a client issues zero or one discovery GET
\* and at most one POST; when it finishes it has issued exactly one POST if its
\* inbox uri was resolved (given in the options or discovered) and none if
\* discovery failed.
C4_OnePostWhenInboxResolved ==
  (op = "send" /\ args.options.webClient)
    => /\ Len(DiscoveryGets) <= 1
       /\ Len(Posts) <= 1
       /\ Len(sent) = Len(DiscoveryGets) + Len(Posts)
       /\ pc = "done" =>
            (Len(Posts) = 1 <=> (InboxGiven \/ discovery.state = "fulfilled"))
       /\ (pc = "done" /\ discovery.state = "rejected") => Len(Posts) = 0

C4_Witness ==
  /\ op = "send" /\ args.options.webClient /\ pc = "done"
  /\ ~InboxGiven /\ discovery.state = "fulfilled"
  /\ Len(DiscoveryGets) = 1 /\ Len(Posts) = 1

\* C5: discoverInboxUri issues no GET when a resource is given; when none is
\* given it issues exactly one GET, to uri, with the header
\* Accept: application/ld+json;q=0.9,text/turtle;q=0.8, and never a second one.
C5_DiscoveryGetCarriesAccept ==
  (discovery.state # "none")
    => /\ args.hasResource => sent = <<>>
       /\ Len(DiscoveryGets) <= 1
       /\ (~args.hasResource /\ pc # "fetch")
            => /\ Len(DiscoveryGets) = 1
               /\ sent[1] = [site |-> "discover", method |-> "GET",
                             uri |-> args.uri,
                             accept |-> "application/ld+json;q=0.9,text/turtle;q=0.8",
                             contentType |-> Undefined, body |-> Undefined]

\* C6: for a resource with neither an inbox link header nor a body triple with
\* the inbox predicate discoverInboxUri is rejected with 'No inbox uri found for
\* resource.'; that error is raised only after the header lookup and the body
\* lookup, and never when one of them yields an inbox.
C6_NoInboxFound ==
  /\ (Inspected /\ InboxLink \in {Undefined, ""} /\ fetched.parseError = ""
        /\ ~HasInboxTriple)
       => discovery = Rejected("No inbox uri found for resource.")
  /\ (discovery.error = "No inbox uri found for resource."
        \/ outcome.error = "No inbox uri found for resource.")
       => /\ calls = <<"linkHeaders", "parsedGraph", "match">>
          /\ InboxLink \in {Undefined, ""}
          /\ ~HasInboxTriple
          /\ discovery.state = "rejected"

C6_Witness ==
  /\ pc = "done" /\ outcome = Rejected(NO_INBOX_ERROR)
  /\ INBOX_LINK_REL \in DOMAIN fetched.linkHeaders
  /\ "describedby" \in DOMAIN fetched.linkHeaders
  /\ fetched.linkHeaders["describedby"] = Inbox
  /\ Len(fetched.graph) > 0

\* C7: for a resource with no inbox link header whose parsed body has a triple
\* with the inbox predicate, discoverInboxUri is fulfilled with the object of
\* the first such triple of the graph.
C7_FirstBodyTriple ==
  (Inspected /\ InboxLink \in {Undefined, ""} /\ fetched.parseError = "")
    => \A i \in 1..Len(fetched.graph) :
         (InboxTripleAt(i) /\ \A j \in 1..(i - 1) : ~InboxTripleAt(j))
           => discovery = FulfilledUri(fetched.graph[i].object)

C7_Witness ==
  /\ Inspected /\ InboxLink \in {Undefined, ""}
  /\ Len(fetched.graph) = 2
  /\ ~InboxTripleAt(1) /\ fetched.graph[1].object = Inbox
  /\ InboxTripleAt(2) /\ fetched.graph[2].object = Inbox2
  /\ discovery.state = "fulfilled" /\ discovery.uri = Inbox2

\* C8: the POST of send goes to the resolved inbox uri (options.inboxUri when
\* given, else the uri discovered for resourceUri), carries the payload as
\* given, and has Content-Type options.contentType when given and
\* application/ld+json otherwise.
C8_PostRequest ==
  \A i \in 1..Len(sent) :
    sent[i].method = "POST"
      => /\ op = "send"
         /\ InboxGiven => sent[i].uri = args.options.inboxUri
         /\ ~InboxGiven => /\ discovery.state = "fulfilled"
                           /\ sent[i].uri = discovery.uri
                           /\ sent[1] = discoveryGet(file, args.uri)
         /\ sent[i].body = args.payload
         /\ sent[i].contentType =
              (IF args.options.contentType \in {Undefined, ""}
                 THEN "application/ld+json" ELSE args.options.contentType)
         /\ sent[i].accept = Undefined

C8_Witness ==
  /\ op = "send" /\ pc = "done" /\ outcome.state = "fulfilled"
  /\ ~InboxGiven /\ args.options.contentType = "text/turtle"
  /\ Len(sent) = 2 /\ sent[2].method = "POST" /\ sent[2].uri = Inbox2
  /\ sent[2].contentType = "text/turtle" /\ sent[2].body = "<a> <b> <c> ."

\* C9: list called with a client and no options.inboxUri runs discovery against
\* resourceUri, then issues exactly one GET to the discovered inbox uri with the
\* Accept header of discovery, and is fulfilled with exactly the keys of the
\* resources mapping of the container received.
C9_ListDiscoversThenGets ==
  (op = "list" /\ args.options.webClient /\ ~InboxGiven)
    => /\ pc # "resolve" => discovery.state # "none"
       /\ pc \notin {"resolve", "fetch"}
            => /\ sent[1].site = "discover" /\ sent[1].method = "GET"
               /\ sent[1].uri = args.uri
       /\ Len(InboxRequests) > 0 => discovery.state = "fulfilled"
       /\ (discovery.state = "fulfilled" /\ pc \in {"wait_inbox", "keys", "done"})
            => /\ Len(sent) = 2
               /\ sent[2].site = "inbox" /\ sent[2].method = "GET"
               /\ sent[2].uri = discovery.uri
               /\ sent[2].accept = sent[1].accept
               /\ sent[2].accept = "application/ld+json;q=0.9,text/turtle;q=0.8"
       /\ outcome.state = "fulfilled"
            => /\ \A m \in Members : m \in outcome.keys <=> m \in DOMAIN container
               /\ outcome.keys \subseteq Members

C9_Witness ==
  /\ op = "list" /\ args.options.webClient /\ ~InboxGiven /\ pc = "done"
  /\ discovery.state = "fulfilled" /\ discovery.uri = Inbox
  /\ outcome.state = "fulfilled" /\ outcome.keys = Members

\* C10: within a list or send call the requests are sequential and gated: at
\* most one request awaits its reply; the inbox request is issued only after
\* the discovery GET was answered and discovery yielded the inbox uri; when the
\* discovery GET fails, the body does not parse, or no inbox is found, no inbox
\* request is issued and the call is rejected with that very error; no request
\* is issued twice.
C10_SequentialAndGated ==
  WithClient
    => /\ Len(replies) <= Len(sent) /\ Len(sent) <= Len(replies) + 1
       /\ Len(DiscoveryGets) <= 1 /\ Len(InboxRequests) <= 1
       /\ \A i \in 1..Len(sent) :
            sent[i].site = "inbox"
              => /\ \A j \in 1..(i - 1) :
                      /\ sent[j].site = "discover"
                      /\ j <= Len(replies) /\ replies[j].ok
                 /\ ~InboxGiven => /\ discovery.state = "fulfilled"
                                   /\ sent[i].uri = discovery.uri
       /\ discovery.state = "rejected"
            => /\ InboxRequests = <<>>
               /\ pc = "done"
               /\ outcome = Rejected(discovery.error)
               /\ IF ~replies[1].ok THEN discovery.error = replies[1].error
                  ELSE IF fetched.parseError # ""
                         THEN discovery.error = fetched.parseError
                  ELSE discovery.error = "No inbox uri found for resource."
       /\ (Len(replies) > 0 /\ ~replies[1].ok /\ sent[1].site = "discover")
            => discovery = Rejected(replies[1].error)
       /\ (Inspected /\ InboxLink \in {Undefined, ""} /\ fetched.parseError # "")
            => discovery = Rejected(fetched.parseError)

C10_Witness ==
  /\ op = "list" /\ WithClient /\ pc = "done"
  /\ Len(sent) = 1 /\ Len(replies) = 1 /\ replies[1].ok
  /\ fetched.parseError = "SyntaxError"
  /\ outcome = Rejected("SyntaxError")
====
